---- MODULE Spec2Model ----
(***************************************************************************)
(* Mimir: the inquiry planner and the federated execution engine.          *)
(*                                                                         *)
(* An Inquiry is constructed from a request (Inquiry.__init__): metrics    *)
(* are resolved and sorted by source name, the request is validated        *)
(* against every owning source, and the metrics are split into one         *)
(* AtomicQuery per run of equal sources.  dispatch() fans the atomic       *)
(* queries out to a thread pool, registers every result in an in-memory    *)
(* DuckDB connection and runs the combined query.                          *)
(***************************************************************************)
EXTENDS Integers, Sequences, FiniteSets, TLC

\* ------------------------------------------------------------------ bounds
MaxMetrics == 3
MaxDims == 2
MaxIdents == 1
YearSpan == 1
Tick == 20
MaxNow == 120
RaceMaxNow == 60
MaxVersion == 2
MaxProjections == 2
MaxKeys == 2
MaxChunks == 3
MaxChunkLen == 2
MaxBuffer == 2
TTL == 60

None == "None"

\* ----------------------------------------------------------------- catalog
\* Three sources and their metrics (Source and Metric definitions).  Python
\* orders source names as strings: "inventory" < "my_source" < "web_events".
SourceNames == {"inventory", "my_source", "web_events"}

SourceRank == [inventory |-> 1, my_source |-> 2, web_events |-> 3]

\* Source: time_col_alias defaults to time_col; local_dimensions are the
\* projections of the source's sql minus the time alias.
Sources ==
    [inventory |->
        [name |-> "inventory", time_col_alias |-> "updated_at",
         local_dimensions |-> {"my_dimension", "product_name"},
         source_dimensions |-> {}],
     my_source |->
        [name |-> "my_source", time_col_alias |-> "created_at",
         local_dimensions |-> {"my_dimension"},
         source_dimensions |-> {"my_other_dimension"}],
     web_events |->
        [name |-> "web_events", time_col_alias |-> "event_time",
         local_dimensions |-> {"my_dimension"},
         source_dimensions |-> {}]]

\* Metric: name and owning source (Metric.source).
MetricSource ==
    [stock_level |-> "inventory", my_metric |-> "my_source",
     visits |-> "web_events"]

MetricNames == DOMAIN MetricSource

\* Dimension names a request may carry.
DimNames == {"my_dimension", "product_name", "created_at"}

\* Identifiers a global filter or an order_by may mention.
Idents == {"my_dimension", "stock_level", "created_at", "ds"}

\* GRANULARITY: the alias property of each member ...
GranularityAlias ==
    [TIME |-> "ts", DATE |-> "ds", MONTH |-> "year_month", YEAR |-> "year"]

\* ... and the alias its parse function gives the projected expression.
GranularityExprAlias ==
    [TIME |-> "ts", DATE |-> "ds", MONTH |-> "year_month",
     YEAR |-> "year_month"]

Granularities == DOMAIN GranularityAlias

\* ------------------------------------------------------------------ inputs
SeqsUpTo(S, n) == UNION {[1..k -> S] : k \in 0..n}

\* The arguments of Inquiry.__init__, and whether the engine binds connections
\* to its sources (MimirEngine.validate_connections).  global_filter and
\* order_by are given by the identifiers their parsed expressions hold, in
\* find_all's order; client_sql is the word SELECT and the expressions that
\* follow it; <<>> stands for an argument that was not given.
Requests ==
    [metrics : SeqsUpTo(MetricNames, MaxMetrics),
     dimensions : SeqsUpTo(DimNames, MaxDims),
     granularity : Granularities \cup {None},
     global_filter : SeqsUpTo(Idents, MaxIdents),
     order_by : SeqsUpTo(Idents, MaxIdents),
     client_sql : {<<>>},
     validate_connections : BOOLEAN]

VARIABLES
    pc,              \* where the inquiry is in its life
    request,         \* the arguments of Inquiry.__init__
    metrics,         \* Inquiry.metrics: resolved, sorted by source name
    atomic_queries,  \* Inquiry.atomic_queries
    error,           \* the exception the last call raised, or None
    combined,        \* the query _combine_queries last built, or None
    futures,         \* dispatch: the future of each atomic query
    registered,      \* the tables registered in the in-memory connection,
                     \* in the order of their registration
    sent,            \* every (connection, sql) a backend was asked to run
    conn,            \* the in-memory DuckDB connection of the call
    executor,        \* the ThreadPoolExecutor of the call
    result,          \* what dispatch() returned, or None
    backend,         \* the dimension keys each source's data holds
    execute_calls,   \* how often execute() of each atomic query was called
    date_pc,         \* compile_source: where the call is
    window,          \* compile_source: the start_date and end_date given
    source_where,    \* compile_source: the conditions it added
    kept,            \* compile_source: the rows the compiled source returns
    now,             \* time.time(), in seconds
    config,          \* the version of the configuration the loader reads
    cache,           \* the lru_cache of the resolvers: key -> stored result
    target,          \* the resolver and argument the callers call
    callers,         \* the threads that call it
    horizon,         \* the time up to which the calls are followed
    thr,             \* where each thread is in its call
    last_return,     \* what the last call to return returned
    prev_return,     \* what the call that returned before it returned
    self,            \* the engine each thread calls the resolver on
    sql_pc,          \* MimirSql: where the statement is
    statement,       \* MimirSql.ast and what sqlglot.parse found of the text
    parsed,          \* what parse_inquiry returned
    routed,          \* the engine the proxy sent the statement to
    chunks,          \* GeneratorStream: every chunk the generator produces
    generator,       \* the chunks it has yet to produce
    buffer,          \* the unread bytes of self.buffer
    delivered,       \* the bytes written into the callers' buffers so far
    returned         \* the size of the last buffer and what readinto returned

inquiry_vars ==
    <<pc, request, metrics, atomic_queries, error, combined, futures,
      registered, sent, conn, executor, result, backend, execute_calls>>

date_vars == <<date_pc, window, source_where, kept>>

cache_vars ==
    <<now, config, cache, target, callers, horizon, thr, last_return,
      prev_return, self>>

sql_vars == <<sql_pc, statement, parsed, routed>>

stream_vars == <<chunks, generator, buffer, delivered, returned>>

vars == <<inquiry_vars, date_vars, cache_vars, sql_vars, stream_vars>>

\* What an operation of the inquiry, of compile_source, of a resolver, of
\* the SQL front end leaves alone.
not_inquiry == <<date_vars, cache_vars, sql_vars, stream_vars>>

not_dates == <<inquiry_vars, cache_vars, sql_vars, stream_vars>>

not_cache == <<inquiry_vars, date_vars, sql_vars, stream_vars>>

not_sql == <<inquiry_vars, date_vars, cache_vars, stream_vars>>

not_stream == <<inquiry_vars, date_vars, cache_vars, sql_vars>>

\* ------------------------------------------------- Inquiry.__init__: sort
\* get_metric: the resolved Metric with its source.
GetMetric(name) == [name |-> name, source |-> MetricSource[name]]

RECURSIVE InsertSorted(_, _)
InsertSorted(m, s) ==
    IF s = <<>> THEN <<m>>
    ELSE IF SourceRank[m.source] < SourceRank[Head(s).source]
         THEN <<m>> \o s
         ELSE <<Head(s)>> \o InsertSorted(m, Tail(s))

\* A sort that was left out: the metrics stay in the request's order.
SortedBySource_Unsorted(ms) == ms

\* sorted(..., key=lambda metric: metric.source.name): a stable sort.
RECURSIVE SortedBySource(_)
SortedBySource(ms) ==
    IF ms = <<>> THEN <<>>
    ELSE InsertSorted(ms[Len(ms)], SortedBySource(SubSeq(ms, 1, Len(ms) - 1)))

ResolveMetrics(names) ==
    SortedBySource([i \in 1..Len(names) |-> GetMetric(names[i])])

\* ------------------------------------------------- Source._validate_columns
\* The columns of column_names that are not allowed, in their order.  The
\* allowed columns are local_dimensions, source_dimensions, metric_names (when
\* given), the time column alias, and the granularity alias (when given).
ValidateColumns(source, column_names, metric_names, granularity_alias) ==
    LET allowed_cols ==
            Sources[source].local_dimensions
                \cup Sources[source].source_dimensions
                \cup metric_names
                \cup {Sources[source].time_col_alias}
                \cup (IF granularity_alias = None THEN {}
                      ELSE {granularity_alias})
    IN  SelectSeq(column_names, LAMBDA col : col \notin allowed_cols)

\* Validators that accept everything.
ValidateDimensions_Skip(source, dimensions) == <<>>

ValidateConditions_Skip(source, where, metric_names) == <<>>

ValidateDimensions(source, dimensions) ==
    ValidateColumns(source, dimensions, {}, None)

ValidateConditions(source, where, metric_names) ==
    IF where = <<>> THEN <<>>
    ELSE ValidateColumns(source, where, metric_names, None)

ValidateSort(source, order_by, metric_names, granularity_alias) ==
    IF order_by = <<>> THEN <<>>
    ELSE ValidateColumns(source, order_by, metric_names, granularity_alias)

\* An exception: its class, what its message names, and the exception it was
\* raised from.
MimirConfigError(source, cols) ==
    [kind |-> "MimirConfigError", source |-> source, cols |-> cols,
     cause |-> None]

NoError == [kind |-> None, source |-> None, cols |-> <<>>, cause |-> None]

Range(s) == {s[i] : i \in DOMAIN s}

\* One pass of the loop body of validate_inquiry: the error the first failing
\* validator of this source raises, or NoError.
ValidateSource(source, req, ms) ==
    LET metric_names == {ms[i].name : i \in DOMAIN ms}
        granularity_alias ==
            IF req.granularity = None THEN None
            ELSE GranularityAlias[req.granularity]
        dims == ValidateDimensions(source, req.dimensions)
        conds == ValidateConditions(source, req.global_filter, metric_names)
        sorts == ValidateSort(source, req.order_by, metric_names,
                              granularity_alias)
    IN  IF dims # <<>> THEN MimirConfigError(source, dims)
        ELSE IF conds # <<>> THEN MimirConfigError(source, conds)
        ELSE IF sorts # <<>> THEN MimirConfigError(source, sorts)
        ELSE NoError

\* A validation that accepts every inquiry.
ValidateInquiry_Accept(req, ms) == {NoError}

\* Inquiry.validate_inquiry iterates over the set of the metrics' sources, in
\* the set's order, and the first failing source raises: every failing source
\* can be that one.  {NoError} when no source fails.
ValidateInquiry(req, ms) ==
    LET sources == {ms[i].source : i \in DOMAIN ms}
        failures == {ValidateSource(s, req, ms) : s \in sources} \ {NoError}
    IN  IF failures = {} THEN {NoError} ELSE failures

\* ------------------------------------------------------------- AtomicQuery
\* Metric.required_dimensions of each metric's configuration.
MetricRequiredDimensions ==
    [stock_level |-> <<"product_name", "region">>,
     my_metric |-> <<"my_other_dimension", "my_dimension">>,
     visits |-> <<>>]

\* The dimensions that have a configuration of their own: source_name and
\* sql, a SELECT of the expressions the dimension contributes.
DimensionConfigs ==
    [my_other_dimension |->
        [source_name |-> "other_source",
         sql |-> <<"SELECT", "o.label AS my_other_dimension">>],
     region |->
        [source_name |-> "geo",
         sql |-> <<"SELECT", "g.region AS region", "g.country AS country">>],
     product_name |-> [source_name |-> "inventory", sql |-> <<>>]]

\* MimirEngine.get_dimension: the configured Dimension, or one of that name
\* with source_name "local" and no sql.
GetDimension(name) ==
    IF name \in DOMAIN DimensionConfigs
    THEN [name |-> name, source_name |-> DimensionConfigs[name].source_name,
          sql |-> DimensionConfigs[name].sql]
    ELSE [name |-> name, source_name |-> "local", sql |-> <<>>]

\* Required dimensions that keep the requested ones.
RequiredDimensions_KeepRequested(ms, dimensions) ==
    {GetDimension(dim) :
        dim \in UNION {{MetricRequiredDimensions[ms[i].name][j] :
                            j \in DOMAIN MetricRequiredDimensions[ms[i].name]} :
                        i \in DOMAIN ms}}

\* AtomicQuery.required_dimensions: a set of Dimension objects, equal when
\* their names are.
RequiredDimensions(ms, dimensions) ==
    {GetDimension(dim) :
        dim \in {d \in UNION {{MetricRequiredDimensions[ms[i].name][j] :
                                  j \in DOMAIN MetricRequiredDimensions[ms[i].name]} :
                               i \in DOMAIN ms} :
                    \A k \in DOMAIN dimensions : dimensions[k] # d}}

\* Source.compile_source, its dimensions: the expressions appended to the
\* source's SELECT, those of the sql of every dimension given that is not
\* local and has one.  The required dimensions come in the order of a set.
AppendedExpressions(dimensions) ==
    UNION {{d.sql[j] : j \in 2..Len(d.sql)} :
              d \in {x \in dimensions : x.source_name # "local" /\ x.sql # <<>>}}

Projection(kind, alias, expr) == [kind |-> kind, alias |-> alias, expr |-> expr]

\* A request grouped by the positions of the dimensions only.
CompileMetricsRequest_GroupDimensions(source, ms, dimensions, granularity) ==
    LET dim_expressions ==
            (IF granularity = None THEN <<>>
             ELSE <<Projection("granularity",
                               GranularityExprAlias[granularity],
                               <<granularity, Sources[source].time_col_alias>>)>>)
            \o [i \in 1..Len(dimensions) |->
                    Projection("dimension", dimensions[i],
                               <<"col", dimensions[i]>>)]
        metrics_expressions ==
            [i \in 1..Len(ms) |->
                Projection("metric", ms[i].name, <<"sql", ms[i].name>>)]
    IN  [select |-> dim_expressions \o metrics_expressions,
         from |-> source,
         group_by |-> [i \in 1..Len(dimensions) |-> i]]

\* AtomicQuery._compile_metrics_request: the granularity expression over the
\* source's time column alias, the dimension names, then the projections of
\* every metric's sql; grouped by the positions of the non-metric expressions.
CompileMetricsRequest(source, ms, dimensions, granularity) ==
    LET dim_expressions ==
            (IF granularity = None THEN <<>>
             ELSE <<Projection("granularity",
                               GranularityExprAlias[granularity],
                               <<granularity, Sources[source].time_col_alias>>)>>)
            \o [i \in 1..Len(dimensions) |->
                    Projection("dimension", dimensions[i],
                               <<"col", dimensions[i]>>)]
        metrics_expressions ==
            [i \in 1..Len(ms) |->
                Projection("metric", ms[i].name, <<"sql", ms[i].name>>)]
    IN  [select |-> dim_expressions \o metrics_expressions,
         from |-> source,
         group_by |-> [i \in 1..Len(dim_expressions) |-> i]]

\* AtomicQuery._build_sql: the metrics request over the compiled source as
\* a CTE, filtered by the global filter.
BuildSql(source, ms, dimensions, granularity, global_filter, required_dimensions) ==
    LET q == CompileMetricsRequest(source, ms, dimensions, granularity)
    IN  [with |-> source,
         as_ |-> AppendedExpressions(
                     {GetDimension(dimensions[i]) : i \in DOMAIN dimensions}
                         \cup required_dimensions),
         select |-> q.select, from |-> q.from,
         group_by |-> q.group_by, where |-> global_filter, limit |-> <<>>]

\* AtomicQuery.__init__.  name is tbl_<30 random hex digits>, drawn when the
\* query is planned: the n-th query planned holds the n-th name drawn.
AtomicQuery(n, source, ms, req) ==
    [name |-> <<"tbl", n>>,
     source |-> source,
     metrics |-> ms,
     dimensions |-> req.dimensions,
     granularity |-> req.granularity,
     required_dimensions |-> RequiredDimensions(ms, req.dimensions),
     ast |-> BuildSql(source, ms, req.dimensions, req.granularity,
                      req.global_filter,
                      RequiredDimensions(ms, req.dimensions))]

\* itertools.groupby(self.metrics, key=lambda metric: metric.source): the
\* runs of consecutive metrics of one source.
RECURSIVE RunLength(_, _)
RunLength(ms, source) ==
    IF ms = <<>> \/ Head(ms).source # source THEN 0
    ELSE 1 + RunLength(Tail(ms), source)

\* A grouping that puts every metric in the group of the first source.
GroupBySource_OneGroup(ms) ==
    IF ms = <<>> THEN <<>>
    ELSE <<[source |-> Head(ms).source, metrics |-> ms]>>

RECURSIVE GroupBySource(_)
GroupBySource(ms) ==
    IF ms = <<>> THEN <<>>
    ELSE LET n == RunLength(ms, Head(ms).source)
         IN  <<[source |-> Head(ms).source, metrics |-> SubSeq(ms, 1, n)]>>
                 \o GroupBySource(SubSeq(ms, n + 1, Len(ms)))

\* Inquiry._split_queries
SplitQueries(ms, req) ==
    LET groups == GroupBySource(ms)
    IN  [n \in 1..Len(groups) |->
            AtomicQuery(n, groups[n].source, groups[n].metrics, req)]

\* ------------------------------------------------ Inquiry._combine_queries
NoQuery == [select |-> <<>>, from |-> <<None, 0>>, joins |-> <<>>,
            order_by |-> <<>>]

Join(table, join_type, using) ==
    [table |-> table, join_type |-> join_type, using |-> using]

\* sqlglot.parse_one(client_sql): a SELECT of the expressions of the text.
ParseOne(sql) == [expressions |-> Tail(sql)]

\* Columns with the granularity alias after the dimension names.
DimColumns_GranularityLast(req) ==
    req.dimensions \o (IF req.granularity = None THEN <<>>
                       ELSE <<GranularityAlias[req.granularity]>>)

\* dim_columns: the granularity alias first, then the dimension names.
DimColumns(req) ==
    (IF req.granularity = None THEN <<>>
     ELSE <<GranularityAlias[req.granularity]>>) \o req.dimensions

\* Joins without the cross-join branch, and without the full-join branch.
JoinTables_AlwaysFull(other_tables, dim_columns) ==
    [i \in 1..Len(other_tables) |->
        Join(other_tables[i], "full", dim_columns)]

JoinTables_AlwaysCross(other_tables, dim_columns) ==
    [i \in 1..Len(other_tables) |-> Join(other_tables[i], "cross", <<>>)]

\* functools.reduce over other_tables: a left fold, one join per table.
JoinTables(other_tables, dim_columns) ==
    [i \in 1..Len(other_tables) |->
        IF dim_columns # <<>>
        THEN Join(other_tables[i], "full", dim_columns)
        ELSE Join(other_tables[i], "cross", <<>>)]

\* The query _combine_queries builds; it needs a first table.
CombineQueries(req, ms, aqs) ==
    LET dim_columns == DimColumns(req)
        metric_columns == [i \in 1..Len(ms) |-> ms[i].name]
        table_names == [i \in 1..Len(aqs) |-> aqs[i].name]
    IN  [select |-> IF req.client_sql # <<>>
                    THEN ParseOne(req.client_sql).expressions
                    ELSE dim_columns \o metric_columns,
         from |-> Head(table_names),
         joins |-> JoinTables(Tail(table_names), dim_columns),
         order_by |-> req.order_by]

ValueError == [kind |-> "ValueError", source |-> None, cols |-> <<>>,
               cause |-> None]

\* ------------------------------------------------------- backend and DuckDB
\* The dimension keys a source's data may hold; NULL is the SQL null.
Keys == {"A", "B", "NULL"}

Null == <<>>

\* What Connection.query returns for an atomic query: the columns are the
\* aliases of its projections; GROUP BY gives one row per key of the source,
\* and a query whose GROUP BY is empty aggregates to a single row.
BackendTable(aq, keys) ==
    LET names == {aq.metrics[i].name : i \in DOMAIN aq.metrics}
        row(k) == [key |-> k,
                   values |-> [m \in names |-> <<aq.source, k>>]]
    IN  [columns |-> {aq.ast.select[i].alias : i \in DOMAIN aq.ast.select},
         value_columns |-> names,
         rows |-> IF aq.ast.group_by = <<>> THEN {row("*")}
                  ELSE {row(k) : k \in keys}]

NullValues(table) == [m \in table.value_columns |-> Null]

\* left FULL JOIN right USING (...): rows with equal non-null keys are merged,
\* every other row of either side is kept, with nulls for the other side.
FullJoinUsing(left, right) ==
    LET match(l, r) == l.key = r.key /\ l.key # "NULL"
    IN  [columns |-> left.columns \cup right.columns,
         value_columns |-> left.value_columns \cup right.value_columns,
         rows |->
            {[key |-> l.key, values |-> l.values @@ r.values] :
                <<l, r>> \in {p \in left.rows \X right.rows :
                                match(p[1], p[2])}}
            \cup {[key |-> l.key, values |-> l.values @@ NullValues(right)] :
                    l \in {x \in left.rows :
                              \A r \in right.rows : ~match(x, r)}}
            \cup {[key |-> r.key, values |-> NullValues(left) @@ r.values] :
                    r \in {x \in right.rows :
                              \A l \in left.rows : ~match(l, x)}}]

CrossJoin(left, right) ==
    [columns |-> left.columns \cup right.columns,
     value_columns |-> left.value_columns \cup right.value_columns,
     rows |-> {[key |-> l.key, values |-> l.values @@ r.values] :
                 <<l, r>> \in left.rows \X right.rows}]

NoTable == [columns |-> {}, value_columns |-> {}, rows |-> {}]

\* The names registered, and the table a name stands for: the one registered
\* last under it.
RegisteredNames(tables) == {tables[i].name : i \in DOMAIN tables}

TableNamed(tables, name) ==
    LET at == {i \in DOMAIN tables : tables[i].name = name}
    IN  IF at = {} THEN NoTable
        ELSE tables[CHOOSE i \in at : \A j \in at : j <= i].table

RECURSIVE JoinAll(_, _, _)
JoinAll(acc, joins, tables) ==
    IF joins = <<>> THEN acc
    ELSE LET j == Head(joins)
             right == TableNamed(tables, j.table)
         IN  JoinAll(IF j.join_type = "full" THEN FullJoinUsing(acc, right)
                     ELSE CrossJoin(acc, right),
                     Tail(joins), tables)

\* DuckDB binds the query before running it: every table it names must be
\* registered, every USING column must be a column of both sides of its join,
\* and every selected or ordering column a column of some table.
Binds(q, tables) ==
    LET named == {q.from} \cup {q.joins[i].table : i \in DOMAIN q.joins}
        all_columns == UNION {TableNamed(tables, n).columns : n \in named}
    IN  /\ named \subseteq RegisteredNames(tables)
        /\ \A i \in DOMAIN q.joins :
              \A n \in {q.from} \cup {q.joins[k].table : k \in 1..i} :
                Range(q.joins[i].using) \subseteq TableNamed(tables, n).columns
        /\ Range(q.select) \cup Range(q.order_by) \subseteq all_columns

NoResult == [status |-> None, columns |-> <<>>, rows |-> {}]

\* conn.execute(sql).fetch_arrow_table()
ExecuteCombined(q, tables) ==
    IF ~Binds(q, tables)
    THEN [status |-> "BinderException", columns |-> <<>>, rows |-> {}]
    ELSE [status |-> "ok", columns |-> q.select,
          rows |-> JoinAll(TableNamed(tables, q.from), q.joins, tables).rows]

\* ------------------------------------------------------ Inquiry.__init__
\* Resolve and sort the metrics, validate, then split: a failed validation
\* raises before any atomic query is built.
Construct ==
    /\ pc = "init"
    /\ LET ms == ResolveMetrics(request.metrics)
       IN  /\ metrics' = ms
           /\ \E e \in ValidateInquiry(request, ms) :
                 IF e = NoError
                 THEN /\ atomic_queries' = SplitQueries(ms, request)
                      /\ error' = NoError
                      /\ pc' = "constructed"
                 ELSE /\ atomic_queries' = <<>>
                      /\ error' = e
                      /\ pc' = "rejected"
    /\ UNCHANGED <<request, combined, futures, registered, sent, conn,
                   executor, result, backend, execute_calls>>
    /\ UNCHANGED not_inquiry

\* A call of _combine_queries on a constructed inquiry.
CombineQueriesCall ==
    /\ pc = "constructed"
    /\ IF atomic_queries = <<>>
       THEN /\ error' = ValueError
            /\ pc' = "failed"
            /\ UNCHANGED combined
       ELSE /\ combined' = CombineQueries(request, metrics, atomic_queries)
            /\ pc' = "combined"
            /\ UNCHANGED error
    /\ UNCHANGED <<request, metrics, atomic_queries, futures, registered,
                   sent, conn, executor, result, backend, execute_calls>>
    /\ UNCHANGED not_inquiry

\* ------------------------------------------------------ Inquiry.dispatch
Future(n) ==
    [query |-> n, state |-> "pending", outcome |-> None, value |-> NoTable,
     consumed |-> FALSE]

\* A submission that stops after the first atomic query.
SubmitAll_FirstOnly(aqs) ==
    [n \in 1..(IF aqs = <<>> THEN 0 ELSE 1) |-> Future(n)]

\* executor.submit(atomic_query.execute) for atomic_query in atomic_queries
SubmitAll(aqs) == [n \in 1..Len(aqs) |-> Future(n)]

\* dispatch() opens the in-memory connection and the executor and submits
\* execute of every atomic query.
DispatchSubmit ==
    /\ pc = "constructed"
    /\ conn' = "open"
    /\ executor' = "open"
    /\ futures' = SubmitAll(atomic_queries)
    /\ pc' = "waiting"
    /\ UNCHANGED <<request, metrics, atomic_queries, error, combined,
                   registered, sent, result, backend, execute_calls>>
    /\ UNCHANGED not_inquiry

\* A pool thread takes a submitted work item and starts running it.
WorkerStart(f) ==
    /\ executor = "open"
    /\ futures[f].state = "pending"
    /\ futures' = [futures EXCEPT ![f].state = "running"]
    /\ UNCHANGED <<pc, request, metrics, atomic_queries, error, combined,
                   registered, sent, conn, executor, result, backend,
                   execute_calls>>
    /\ UNCHANGED not_inquiry

\* The connection bound to a source (Source.connection).
ConnectionOf(source) == <<"connection", source>>

\* AtomicQuery.execute in a pool thread: without a connection it raises
\* MimirQueryError; otherwise the sql goes to the source's connection, which
\* returns a table or raises.
WorkerExecute(f) ==
    /\ executor = "open"
    /\ futures[f].state = "running"
    /\ LET aq == atomic_queries[futures[f].query]
       IN  /\ execute_calls' =
                 [execute_calls EXCEPT ![futures[f].query] = @ + 1]
           /\ IF ~request.validate_connections
              THEN /\ futures' = [futures EXCEPT
                                    ![f].state = "finished",
                                    ![f].outcome = "MimirQueryError"]
                   /\ UNCHANGED sent
              ELSE /\ sent' = sent \cup
                        {[connection |-> ConnectionOf(aq.source),
                          sql |-> aq.ast]}
                   /\ \/ futures' = [futures EXCEPT
                                       ![f].state = "finished",
                                       ![f].outcome = "ok",
                                       ![f].value =
                                          BackendTable(aq, backend[aq.source])]
                      \/ futures' = [futures EXCEPT
                                       ![f].state = "finished",
                                       ![f].outcome = "BackendError"]
    /\ UNCHANGED <<pc, request, metrics, atomic_queries, error, combined,
                   registered, conn, result, backend, executor>>
    /\ UNCHANGED not_inquiry

\* conn.register(atomic_query.name, data), by the thread that calls it.
Register(tables, name, data, thread) ==
    Append(tables, [name |-> name, table |-> data, by |-> thread])

\* atomic_query = future_to_query[future]: the name a future's result is
\* registered under is the name of the query the future was submitted for.
RegisterName(aqs, futs, tables, f) == aqs[futs[f].query].name

\* One turn of the as_completed loop in the thread that called dispatch():
\* the result of a finished future is registered, its exception is raised
\* from a new Exception.
AsCompleted(f) ==
    /\ pc = "waiting"
    /\ futures[f].state = "finished"
    /\ ~futures[f].consumed
    /\ futures' = [futures EXCEPT ![f].consumed = TRUE]
    /\ LET aq == atomic_queries[futures[f].query]
       IN  IF futures[f].outcome = "ok"
           THEN /\ registered' =
                     Register(registered,
                              RegisterName(atomic_queries, futures,
                                           registered, f),
                              futures[f].value, "main")
                /\ UNCHANGED <<pc, error>>
           ELSE /\ error' = [kind |-> "Exception", source |-> aq.source,
                              cols |-> <<>>, cause |-> futures[f].outcome]
                /\ pc' = "aborting"
                /\ UNCHANGED registered
    /\ UNCHANGED <<request, metrics, atomic_queries, combined, sent, conn,
                   executor, result, backend, execute_calls>>
    /\ UNCHANGED not_inquiry

\* A loop that stops at the first result.
AsCompletedExhausted_AfterFirst(futs) ==
    \E f \in DOMAIN futs : futs[f].consumed

\* The as_completed loop ends when it has yielded every future.
AsCompletedExhausted(futs) == \A f \in DOMAIN futs : futs[f].consumed

AllFinished == \A f \in DOMAIN futures : futures[f].state = "finished"

\* An exit that raises with the pool and the connection left as they are.
AbortExit_Leak ==
    /\ pc = "aborting"
    /\ AllFinished
    /\ pc' = "raised"
    /\ UNCHANGED <<request, metrics, atomic_queries, error, combined, futures,
                   registered, sent, conn, executor, result, backend,
                   execute_calls>>
    /\ UNCHANGED not_inquiry

\* The exception leaves the two with blocks: ThreadPoolExecutor.__exit__ is
\* shutdown(wait=True), which returns once every submitted work item has run,
\* then the connection is closed and dispatch() raises.
AbortExit ==
    /\ pc = "aborting"
    /\ AllFinished
    /\ executor' = "shutdown"
    /\ conn' = "closed"
    /\ pc' = "raised"
    /\ UNCHANGED <<request, metrics, atomic_queries, error, combined, futures,
                   registered, sent, result, backend, execute_calls>>
    /\ UNCHANGED not_inquiry

\* as_completed is exhausted: the executor is shut down, the combined query
\* is built and executed, the connection is closed.
CombineAndExecute ==
    /\ pc = "waiting"
    /\ AsCompletedExhausted(futures)
    /\ executor' = "shutdown"
    /\ conn' = "closed"
    /\ IF atomic_queries = <<>>
       THEN /\ error' = ValueError
            /\ pc' = "raised"
            /\ UNCHANGED <<combined, result>>
       ELSE LET q == CombineQueries(request, metrics, atomic_queries)
                r == ExecuteCombined(q, registered)
            IN  /\ combined' = q
                /\ IF r.status = "ok"
                   THEN /\ result' = r
                        /\ pc' = "done"
                        /\ UNCHANGED error
                   ELSE /\ error' = [kind |-> r.status, source |-> None,
                                      cols |-> <<>>, cause |-> None]
                        /\ pc' = "raised"
                        /\ UNCHANGED result
    /\ UNCHANGED <<request, metrics, atomic_queries, futures, registered,
                   sent, backend, execute_calls>>
    /\ UNCHANGED not_inquiry

\* ------------------------------------------------------- Inquiry.compile
\* A query without its limit.
Limit_Dropped(ast, n) == ast

\* ast.limit(n)
Limit(ast, n) == [ast EXCEPT !.limit = <<n>>]

\* What a backend returns for a query with LIMIT 0: the columns, no rows.
SchemaOnly(table) == [table EXCEPT !.rows = {}]

\* compile(): in the in-memory connection, for each atomic query in turn, the
\* LIMIT 0 form of its sql is run by the source's connection (MimirQueryError
\* if the source has none) and the result is registered; then the combined
\* query is built and its text returned.  k is the atomic query whose
\* backend raises, 0 if none does.
CompileCall ==
    /\ pc = "constructed"
    /\ conn' = "closed"
    /\ \E k \in 0..Len(atomic_queries) :
          LET n == Len(atomic_queries)
              connected == request.validate_connections
              stop == IF connected THEN k ELSE IF n = 0 THEN 0 ELSE 1
              queried == IF ~connected THEN 0
                         ELSE IF stop = 0 THEN n ELSE stop
              stored == IF stop = 0 THEN n ELSE stop - 1
          IN  /\ ~connected => k = 0
              /\ sent' = sent \cup
                    {[connection |-> ConnectionOf(atomic_queries[i].source),
                      sql |-> Limit(atomic_queries[i].ast, 0)] :
                        i \in 1..queried}
              /\ registered' =
                    [i \in 1..stored |->
                        [name |-> atomic_queries[i].name,
                         table |->
                            SchemaOnly(
                                BackendTable(
                                    atomic_queries[i],
                                    backend[atomic_queries[i].source])),
                         by |-> "main"]]
              /\ IF stop # 0
                 THEN /\ error' =
                           [kind |-> IF connected THEN "BackendError"
                                     ELSE "MimirQueryError",
                            source |-> atomic_queries[stop].source,
                            cols |-> <<>>, cause |-> None]
                      /\ pc' = "compile_raised"
                      /\ UNCHANGED combined
                 ELSE IF n = 0
                      THEN /\ error' = ValueError
                           /\ pc' = "compile_raised"
                           /\ UNCHANGED combined
                      ELSE /\ combined' =
                                CombineQueries(request, metrics,
                                               atomic_queries)
                           /\ pc' = "compiled"
                           /\ UNCHANGED error
    /\ UNCHANGED <<request, metrics, atomic_queries, futures, executor,
                   result, backend, execute_calls>>
    /\ UNCHANGED not_inquiry

\* ---------------------------------------------------------- specifications
\* The data behind the three sources' connections.
\* ------------------------------------------- Source.compile_source: dates
\* Calendar dates as datetime keeps them, and the rows' timestamps: a date
\* with the first (0) or the last (1) instant of the day.
Years == 2024..(2024 + YearSpan)

IsLeap(y) == (y % 4 = 0 /\ y % 100 # 0) \/ y % 400 = 0

DaysInMonth(y, m) ==
    IF m = 2 THEN (IF IsLeap(y) THEN 29 ELSE 28)
    ELSE IF m \in {4, 6, 9, 11} THEN 30 ELSE 31

Date(y, m, d) == [year |-> y, month |-> m, day |-> d]

\* The months followed: of 31, 28 or 29, and 30 days, and the last of a year.
Months == {1, 2, 3, 4, 12}

Dates ==
    {Date(y, m, d) : y \in Years, m \in Months, d \in {1, 2, 15, 28, 29, 30, 31}}
        \ {dt \in [year : Years, month : Months, day : 29..31] :
                dt.day > DaysInMonth(dt.year, dt.month)}

Rows == [date : Dates, tod : {0, 1}]

\* A sum that leaves the date as it is.
Timedelta1_Zero(dt) == dt

\* dt + timedelta(days=1)
Timedelta1(dt) ==
    IF dt.day < DaysInMonth(dt.year, dt.month)
    THEN Date(dt.year, dt.month, dt.day + 1)
    ELSE IF dt.month < 12 THEN Date(dt.year, dt.month + 1, 1)
    ELSE Date(dt.year + 1, 1, 1)

Digits == <<"0", "1", "2", "3", "4", "5", "6", "7", "8", "9">>

Pow10(k) == IF k = 0 THEN 1 ELSE IF k = 1 THEN 10 ELSE IF k = 2 THEN 100 ELSE 1000

\* n in w decimal digits, zero-padded
Padded(n, w) == [i \in 1..w |-> Digits[((n \div Pow10(w - i)) % 10) + 1]]

\* dt.strftime('%Y-%m-%d')
Strftime(dt) ==
    Padded(dt.year, 4) \o <<"-">> \o Padded(dt.month, 2) \o <<"-">>
        \o Padded(dt.day, 2)

DigitValue(c) == CHOOSE n \in 0..9 : Digits[n + 1] = c

Number(text) ==
    LET w == Len(text)
        val[i \in 0..w] ==
            IF i = 0 THEN 0 ELSE 10 * val[i - 1] + DigitValue(text[i])
    IN  val[w]

\* datetime.strptime(text, "%Y-%m-%d")
Strptime(text) ==
    Date(Number(SubSeq(text, 1, 4)), Number(SubSeq(text, 6, 7)),
         Number(SubSeq(text, 9, 10)))

\* An absent date: None, or the empty string, which is falsy as well.
NoDate == <<>>

DateTexts == {Strftime(dt) : dt \in Dates}

Condition(column, op, literal) ==
    [column |-> column, op |-> op, literal |-> literal]

\* The WHERE conditions compile_source adds to the source's SELECT.
CompileSource(time_col, start_date, end_date) ==
    (IF start_date # NoDate
     THEN <<Condition(time_col, ">=", Strftime(start_date))>> ELSE <<>>)
    \o (IF end_date # NoDate
        THEN <<Condition(time_col, "<", Strftime(Timedelta1(end_date)))>>
        ELSE <<>>)

\* _build_sql parses the two strings and compiles the source with them.
BuildSqlDates(time_col, start_text, end_text) ==
    CompileSource(time_col,
                  IF start_text # NoDate THEN Strptime(start_text) ELSE NoDate,
                  IF end_text # NoDate THEN Strptime(end_text) ELSE NoDate)

\* The backend compares the time column with the literal cast to a timestamp,
\* the first instant of its day.
StampLess(a, b) ==
    \/ a.date.year < b.date.year
    \/ a.date.year = b.date.year /\ a.date.month < b.date.month
    \/ a.date.year = b.date.year /\ a.date.month = b.date.month
          /\ a.date.day < b.date.day
    \/ a.date = b.date /\ a.tod < b.tod

CastTimestamp(literal) == [date |-> Strptime(literal), tod |-> 0]

Satisfies(row, cond) ==
    IF cond.op = ">=" THEN ~StampLess(row, CastTimestamp(cond.literal))
    ELSE StampLess(row, CastTimestamp(cond.literal))

RunSource(conditions) ==
    {row \in Rows : \A i \in DOMAIN conditions : Satisfies(row, conditions[i])}

DatesIdle ==
    /\ date_pc = "idle"
    /\ window = [start_date |-> NoDate, end_date |-> NoDate]
    /\ source_where = <<>>
    /\ kept = {}

\* AtomicQuery.__init__ builds the SQL of its source for the window given.
BuildSqlCall ==
    /\ date_pc = "given"
    /\ source_where' =
          BuildSqlDates("created", window.start_date, window.end_date)
    /\ date_pc' = "compiled"
    /\ UNCHANGED <<window, kept>>
    /\ UNCHANGED not_dates

\* The source's backend runs the compiled SELECT.
QuerySource ==
    /\ date_pc = "compiled"
    /\ kept' = RunSource(source_where)
    /\ date_pc' = "queried"
    /\ UNCHANGED <<window, source_where>>
    /\ UNCHANGED not_dates

\* ------------------------------------------- ttl_cache and the resolvers
\* The configuration the loader reads: one source, one dimension and one
\* metric are configured, at the version `config`; no other name is.
Configured ==
    [source |-> "my_source", dimension |-> "my_dimension",
     metric |-> "my_metric"]

Unconfigured == "nope"

\* A name whose configuration file is written with the first change of the
\* configuration.
Added == "added"

Resolvers ==
    [get_source |-> "source", get_dimension |-> "dimension",
     get_metric |-> "metric", get_sources |-> "source",
     get_dimensions |-> "dimension", get_metrics |-> "metric"]

Singular == {"get_source", "get_dimension", "get_metric"}

SingularTargets ==
    {tg \in Singular \X {"my_source", "my_dimension", "my_metric",
                         Unconfigured, Added} :
        tg[2] \in {Configured[Resolvers[tg[1]]], Unconfigured, Added}}

Targets ==
    SingularTargets \cup {<<r, "*">> : r \in (DOMAIN Resolvers) \ Singular}

\* A coarser bucket, and no bucket at all.
Bucket_Coarse(t) == t \div (2 * TTL)

Bucket_Constant(t) == 0 * t

\* int(time.time() / ttl_seconds)
Bucket(t) == t \div TTL

\* The engines of the process: each MimirEngine(config_loader=...) is one;
\* an engine is equal to itself only and hashes by identity.
Engines == {"e1", "e2"}

\* A key that leaves the engine out: every engine's call is e1's.
KeyOf_NoSelf(e, tg, bucket) == <<"e1", tg[1], tg[2], bucket>>

\* The key lru_cache makes of (self, name, _ttl_hash=bucket) for a resolver.
KeyOf(e, tg, bucket) == <<e, tg[1], tg[2], bucket>>

CacheKey(e, tg, t) == KeyOf(e, tg, Bucket(t))

\* What the engine's config_loader reads: e1's directory holds the
\* configuration at its version; e2's loader reads another directory, whose
\* files are others (and include the added name).
LoaderOffset == [e1 |-> 0, e2 |-> MaxVersion + 1]

LoaderVersion(e, cfg) == cfg + LoaderOffset[e]

LoaderVersions(e) == {LoaderVersion(e, cfg) : cfg \in 0..MaxVersion}

\* FileConfigLoader.get: the configuration, None, or FileNotFoundError: the
\* sources are looked up in the dictionary of all sources, a dimension file
\* that is not found gives no options, a metric file that is not found raises.
LoaderGet(kind, name, cfg) ==
    IF name = Configured[kind] \/ (name = Added /\ cfg >= 1) THEN "conf"
    ELSE IF kind = "metric" THEN "FileNotFoundError"
    ELSE "None"

\* What a resolver returns or raises, with the version of the configuration it
\* was built from and the time it was loaded (its own and its source's).
Value(status, entity, source_name, sql, version, loaded_at) ==
    [status |-> status, entity |-> entity, source_name |-> source_name,
     sql |-> sql, version |-> version, loaded_at |-> loaded_at,
     source_version |-> version, source_loaded_at |-> loaded_at]

Raised(status, entity) == Value(status, entity, None, None, 0, 0)

NoValue == Value(None, None, None, None, 0, 0)

\* A store that keeps the entry it finds.
Put_KeepFirst(c, key, v) ==
    [k \in DOMAIN c \cup {key} |-> IF k \in DOMAIN c THEN c[k] ELSE v]

\* lru_cache stores the result under the key, over what is there.
Put(c, key, v) ==
    [k \in DOMAIN c \cup {key} |-> IF k = key THEN v ELSE c[k]]

\* get_source
LoadSource(name, cfg, t) ==
    IF LoaderGet("source", name, cfg) = "None"
    THEN Raised("MimirConfigError", name)
    ELSE Value("ok", name, None, "sql", cfg, t)

\* The get_source a metric's construction calls: itself behind the cache.
NestedGetSource(e, name, cfg, t, c) ==
    LET key == CacheKey(e, <<"get_source", name>>, t)
    IN  IF key \in DOMAIN c THEN [value |-> c[key], cache |-> c]
        ELSE LET v == LoadSource(name, cfg, t)
             IN  [value |-> v,
                  cache |-> IF v.status = "ok" THEN Put(c, key, v) ELSE c]

\* get_dimension: the configuration, or the stub {"source": "local", "name"},
\* whose source_name is the default of the Dimension model.
LoadDimension(name, cfg, t) ==
    IF LoaderGet("dimension", name, cfg) = "None"
    THEN Value("ok", name, "local", None, 0, t)
    ELSE Value("ok", name, "my_source", "sql", cfg, t)

\* get_metric: _init_metric resolves the metric's source with get_source.
LoadMetric(e, name, cfg, t, c) ==
    IF LoaderGet("metric", name, cfg) = "FileNotFoundError"
    THEN [value |-> Raised("FileNotFoundError", name), cache |-> c]
    ELSE LET source_name == IF name \in DOMAIN MetricSource
                            THEN MetricSource[name]
                            ELSE Configured["source"]
             src == NestedGetSource(e, source_name, cfg, t, c)
         IN  [value |-> [Value("ok", name, source_name, "sql", cfg, t)
                            EXCEPT !.source_version = src.value.version,
                                   !.source_loaded_at = src.value.loaded_at],
              cache |-> src.cache]

\* The function a resolver wraps, run at time t against the configuration.
Resolve(e, tg, cfg, t, c) ==
    CASE tg[1] = "get_source" ->
            [value |-> LoadSource(tg[2], cfg, t), cache |-> c]
      [] tg[1] = "get_dimension" ->
            [value |-> LoadDimension(tg[2], cfg, t), cache |-> c]
      [] tg[1] = "get_metric" -> LoadMetric(e, tg[2], cfg, t, c)
      [] tg[1] = "get_sources" ->
            [value |-> Value("ok", "*", None, "sql", cfg, t), cache |-> c]
      [] tg[1] = "get_dimensions" ->
            [value |-> Value("ok", "*", "my_source", "sql", cfg, t),
             cache |-> c]
      [] tg[1] = "get_metrics" ->
            LET m == LoadMetric(e, Configured["metric"], cfg, t, c)
            IN  [value |-> [m.value EXCEPT !.entity = "*"], cache |-> m.cache]

Threads == {"t1", "t2"}

Idle == [pc |-> "idle", bucket |-> 0, called_at |-> 0, value |-> NoValue]

\* The record of a return; `turn` tells a return from the one before it.
NoReturn ==
    [by |-> None, value |-> NoValue, bucket |-> 0, called_at |-> 0,
     returned_at |-> 0, loaded |-> FALSE, turn |-> FALSE]

Returned(t, v, bucket, called_at, loaded) ==
    [by |-> t, value |-> v, bucket |-> bucket, called_at |-> called_at,
     returned_at |-> now, loaded |-> loaded, turn |-> ~last_return.turn]

CacheIdle ==
    /\ now = 0
    /\ config = 0
    /\ cache = <<>>
    /\ target = <<None, None>>
    /\ callers = {}
    /\ horizon = 0
    /\ thr = [t \in Threads |-> Idle]
    /\ last_return = NoReturn
    /\ prev_return = NoReturn
    /\ self = [t \in Threads |-> "e1"]

\* wrapper: the bucket of the time of the call, and the look-up of its key; a
\* hit returns the stored result.
Call(t) ==
    /\ t \in callers
    /\ thr[t].pc = "idle"
    /\ LET key == CacheKey(self[t], target, now)
       IN  IF key \in DOMAIN cache
           THEN /\ prev_return' = last_return
                /\ last_return' = Returned(t, cache[key], key[4], now, FALSE)
                /\ UNCHANGED thr
           ELSE /\ thr' = [thr EXCEPT ![t] =
                             [pc |-> "missed", bucket |-> key[4],
                              called_at |-> now, value |-> NoValue]]
                /\ UNCHANGED <<last_return, prev_return>>
    /\ UNCHANGED <<now, config, cache, target, callers, horizon, self>>
    /\ UNCHANGED not_cache

\* A miss whose exception is stored under the key of the call.
Load_StoreRaised(t) ==
    /\ thr[t].pc = "missed"
    /\ LET r == Resolve(self[t], target,
                        LoaderVersion(self[t], config), now, cache)
       IN  IF r.value.status = "ok"
           THEN /\ cache' = r.cache
                /\ thr' = [thr EXCEPT ![t].pc = "loaded",
                                      ![t].value = r.value]
                /\ UNCHANGED <<last_return, prev_return>>
           ELSE /\ cache' = Put(r.cache,
                                KeyOf(self[t], target, thr[t].bucket),
                                r.value)
                /\ thr' = [thr EXCEPT ![t] = Idle]
                /\ prev_return' = last_return
                /\ last_return' = Returned(t, r.value, thr[t].bucket,
                                           thr[t].called_at, TRUE)
    /\ UNCHANGED <<now, config, target, callers, horizon, self>>
    /\ UNCHANGED not_cache

\* A miss runs the resolver; what it raises is raised to the caller at once
\* and nothing is stored.
Load(t) ==
    /\ thr[t].pc = "missed"
    /\ LET r == Resolve(self[t], target,
                        LoaderVersion(self[t], config), now, cache)
       IN  /\ cache' = r.cache
           /\ IF r.value.status = "ok"
              THEN /\ thr' = [thr EXCEPT ![t].pc = "loaded",
                                         ![t].value = r.value]
                   /\ UNCHANGED <<last_return, prev_return>>
              ELSE /\ thr' = [thr EXCEPT ![t] = Idle]
                   /\ prev_return' = last_return
                   /\ last_return' = Returned(t, r.value, thr[t].bucket,
                                              thr[t].called_at, TRUE)
    /\ UNCHANGED <<now, config, target, callers, horizon, self>>
    /\ UNCHANGED not_cache

\* The result is stored under the key of the call and returned.
Store(t) ==
    /\ thr[t].pc = "loaded"
    /\ cache' = Put(cache, KeyOf(self[t], target, thr[t].bucket),
                    thr[t].value)
    /\ prev_return' = last_return
    /\ last_return' = Returned(t, thr[t].value, thr[t].bucket,
                               thr[t].called_at, TRUE)
    /\ thr' = [thr EXCEPT ![t] = Idle]
    /\ UNCHANGED <<now, config, target, callers, horizon, self>>
    /\ UNCHANGED not_cache

\* Time passes; a resolver that has its result stores it without delay.
Advance ==
    /\ now + Tick <= horizon
    /\ \A t \in Threads : thr[t].pc # "loaded"
    /\ now' = now + Tick
    /\ UNCHANGED <<config, cache, target, callers, horizon, thr, last_return,
                   prev_return, self>>
    /\ UNCHANGED not_cache

\* Someone edits the configuration files.
ChangeConfig ==
    /\ config < MaxVersion
    /\ config' = config + 1
    /\ UNCHANGED <<now, cache, target, callers, horizon, thr, last_return,
                   prev_return, self>>
    /\ UNCHANGED not_cache

\* ------------------------------------------------ MimirSql: the statement
\* What sqlglot hands to MimirSql: the tree of the first statement of the
\* text (parse_one), and the number of statements of the text (parse).
\* A projection is one of
\*   column    d            Column
\*   agg       AGG(m)       Anonymous "AGG" over a Column
\*   wrapped   ROUND(AGG(m))  Round over Anonymous "AGG" over a Column
\*   ratio     AGG(m) / AGG(n)  Div of two Anonymous "AGG"
\*   star      *            Star
\* with or without an alias (Alias over it).
SqlColumn(name, alias) ==
    [kind |-> "column", fn |-> None, name |-> name, other |-> None,
     alias |-> alias]

SqlAgg(fn, name, alias) ==
    [kind |-> "agg", fn |-> fn, name |-> name, other |-> None,
     alias |-> alias]

SqlWrapped(name) ==
    [kind |-> "wrapped", fn |-> "AGG", name |-> name, other |-> None,
     alias |-> None]

SqlRatio(name, other) ==
    [kind |-> "ratio", fn |-> "AGG", name |-> name, other |-> other,
     alias |-> None]

SqlStar ==
    [kind |-> "star", fn |-> None, name |-> None, other |-> None,
     alias |-> None]

Projections ==
    {SqlColumn("d1", None), SqlColumn("d1", "x"),
     SqlAgg("AGG", "m1", None), SqlAgg("AGG", "m1", "x"),
     SqlAgg("agg", "m1", None), SqlAgg("AGG", "m2", None),
     SqlWrapped("m1"), SqlRatio("m1", "m2"), SqlStar}

\* WHERE d1 = 'a', or no WHERE.
NoWhere == [present |-> FALSE, left |-> None, op |-> None, right |-> None]

Wheres ==
    {NoWhere, [present |-> TRUE, left |-> "d1", op |-> "=", right |-> "'a'"]}

\* The sort keys of ORDER BY: Ordered nodes.
Ordereds ==
    {[this |-> "d1", desc |-> FALSE], [this |-> "d1", desc |-> TRUE],
     [this |-> "m1", desc |-> TRUE]}

\* `form`: the text is one plain SELECT, or has a second statement, or the
\* first statement holds a CTE, a derived table or a subquery.  `table`: the
\* first Table node of the tree, if any.
Statements ==
    [projections : SeqsUpTo(Projections, MaxProjections) \ {<<>>},
     where : Wheres,
     order : SeqsUpTo(Ordereds, MaxKeys),
     table : {"mimir.metrics", "main.t", None},
     form : {"single", "multiple", "cte", "derived_table", "subquery"}]

NoStatement ==
    [projections |-> <<>>, where |-> NoWhere, order |-> <<>>,
     table |-> None, form |-> "single"]

\* MimirSql.validate.
SqlValidate(stmt) ==
    IF stmt.form = "multiple"
    THEN "MimirNotImplementedError"
    ELSE IF stmt.form \in {"cte", "derived_table", "subquery"}
         THEN "MimirNotImplementedError"
         ELSE "ok"

\* col.find(Func): the first function node of a projection, breadth first,
\* and its .name: the function's name for an anonymous function, the text
\* of its `this` argument, here empty, for ROUND.
NoFunc == [found |-> FALSE, name |-> None]

FindFunc(p) ==
    CASE p.kind = "agg" -> [found |-> TRUE, name |-> p.fn]
      [] p.kind = "wrapped" -> [found |-> TRUE, name |-> ""]
      [] p.kind = "ratio" -> [found |-> TRUE, name |-> p.fn]
      [] OTHER -> NoFunc

\* str.upper on the function names that occur.
Upper(name) == IF name = "agg" THEN "AGG" ELSE name

\* The condition of both comprehensions of parse_inquiry.
IsAggProjection(p) == FindFunc(p).found /\ Upper(FindFunc(p).name) = "AGG"

\* col.find(Column): the first column of a projection, or none.
FindColumn(p) ==
    IF p.kind = "star"
    THEN [found |-> FALSE, this |-> None]
    ELSE [found |-> TRUE, this |-> p.name]

\* The rendering of one projection once every AGG(x) is replaced by x
\* (the loop over find_all(Func)), as tokens.
ReplacedSql(p) ==
    LET body ==
            CASE p.kind = "column" -> <<p.name>>
              [] p.kind = "agg" -> <<p.name>>
              [] p.kind = "wrapped" -> <<"ROUND", "(", p.name, ")">>
              [] p.kind = "ratio" -> <<p.name, "/", p.other>>
              [] OTHER -> <<"*">>
    IN  IF p.alias = None THEN body ELSE body \o <<"AS", p.alias>>

RECURSIVE JoinComma(_)
JoinComma(parts) ==
    IF parts = <<>>
    THEN <<>>
    ELSE IF Len(parts) = 1
         THEN Head(parts)
         ELSE Head(parts) \o <<",">> \o JoinComma(Tail(parts))

\* Ordered.sql().
OrderedSql(key) == IF key.desc THEN <<key.this, "DESC">> ELSE <<key.this>>

\* The text of a clause the statement does not have (Python's None).
NoText == <<>>

NoParse ==
    [status |-> None, dimensions |-> {}, metrics |-> {},
     global_filter |-> NoText, order_by |-> NoText, client_sql |-> NoText]

\* processed_ast.find(Ordered): the first sort key only.
FirstOrdered(order) ==
    IF order = <<>> THEN NoText ELSE OrderedSql(order[1])

\* MimirSql.parse_inquiry.  A projection without a column makes the
\* dimensions comprehension fail on None.find.
ParseInquiry(stmt) ==
    LET cols == Range(stmt.projections)
    IN  IF \E p \in cols : ~IsAggProjection(p) /\ ~FindColumn(p).found
        THEN [NoParse EXCEPT !.status = "AttributeError"]
        ELSE [status |-> "ok",
              dimensions |->
                  {FindColumn(p).this : p \in {q \in cols :
                                                   ~IsAggProjection(q)}},
              metrics |->
                  {p.name : p \in {q \in cols : IsAggProjection(q)}},
              global_filter |->
                  IF stmt.where.present
                  THEN <<stmt.where.left, stmt.where.op, stmt.where.right>>
                  ELSE NoText,
              order_by |-> FirstOrdered(stmt.order),
              client_sql |->
                  <<"SELECT">> \o
                  JoinComma([i \in DOMAIN stmt.projections |->
                                 ReplacedSql(stmt.projections[i])])]

SqlIdle ==
    /\ sql_pc = "idle"
    /\ statement = NoStatement
    /\ parsed = NoParse
    /\ routed = None

\* MimirSql(sql).validate()
ValidateCall ==
    /\ sql_pc = "new"
    /\ sql_pc' = IF SqlValidate(statement) = "ok"
                 THEN "validated"
                 ELSE "not_implemented"
    /\ UNCHANGED <<statement, parsed, routed>>
    /\ UNCHANGED not_sql

\* MimirSql(sql).parse_inquiry(), validated before or not.
ParseInquiryCall ==
    /\ sql_pc \in {"new", "validated"}
    /\ parsed' = ParseInquiry(statement)
    /\ sql_pc' = IF parsed'.status = "ok" THEN "parsed" ELSE "raised"
    /\ UNCHANGED <<statement, routed>>
    /\ UNCHANGED not_sql

\* MimirProxySession.query: a statement on mimir.metrics is parsed and sent
\* to the Mimir client, any other to the local DuckDB connection.
ProxyQuery ==
    /\ sql_pc = "new"
    /\ IF statement.table = "mimir.metrics"
       THEN /\ parsed' = ParseInquiry(statement)
            /\ IF parsed'.status = "ok"
               THEN sql_pc' = "answered" /\ routed' = "mimir_client"
               ELSE sql_pc' = "failed" /\ routed' = None
       ELSE /\ parsed' = parsed
            /\ sql_pc' = "answered"
            /\ routed' = "duckdb"
    /\ UNCHANGED statement
    /\ UNCHANGED not_sql

\* ---------------------------------------------------------- GeneratorStream
\* The bytes of a stream are numbered in the order the generator produces
\* them; the chunks of the given lengths.
RECURSIVE Sum(_)
Sum(lens) == IF lens = <<>> THEN 0 ELSE Head(lens) + Sum(Tail(lens))

ChunksOf(lens) ==
    [i \in DOMAIN lens |->
        [j \in 1..lens[i] |-> Sum(SubSeq(lens, 1, i - 1)) + j]]

RECURSIVE Flatten(_)
Flatten(seqs) == IF seqs = <<>> THEN <<>> ELSE Head(seqs) \o Flatten(Tail(seqs))

NoRead == [size |-> 0, n |-> -1]

StreamIdle ==
    /\ chunks = <<>>
    /\ generator = <<>>
    /\ buffer = <<>>
    /\ delivered = <<>>
    /\ returned = NoRead

\* io.BytesIO.readinto(b): as many of the unread bytes as b holds.
BytesIOReadInto(unread, size) ==
    IF size < Len(unread) THEN size ELSE Len(unread)

\* GeneratorStream.readinto(b), b of the given size: what self.buffer still
\* holds; if that is nothing, the next chunk becomes self.buffer and is read;
\* 0 if the generator has stopped.
ReadInto(size) ==
    LET bytes_read == BytesIOReadInto(buffer, size)
    IN  /\ IF bytes_read > 0
           THEN /\ delivered' = delivered \o SubSeq(buffer, 1, bytes_read)
                /\ buffer' = SubSeq(buffer, bytes_read + 1, Len(buffer))
                /\ returned' = [size |-> size, n |-> bytes_read]
                /\ UNCHANGED generator
           ELSE IF generator = <<>>
                THEN /\ returned' = [size |-> size, n |-> 0]
                     /\ UNCHANGED <<generator, buffer, delivered>>
                ELSE LET chunk == Head(generator)
                         n == BytesIOReadInto(chunk, size)
                     IN  /\ generator' = Tail(generator)
                         /\ delivered' = delivered \o SubSeq(chunk, 1, n)
                         /\ buffer' = SubSeq(chunk, n + 1, Len(chunk))
                         /\ returned' = [size |-> size, n |-> n]
        /\ UNCHANGED chunks
        /\ UNCHANGED not_stream

DefaultBackend ==
    [inventory |-> {"A", "B"}, my_source |-> {"B"}, web_events |-> {"A"}]

InitWith(req, data) ==
    /\ pc = "init"
    /\ request = req
    /\ metrics = <<>>
    /\ atomic_queries = <<>>
    /\ error = NoError
    /\ combined = NoQuery
    /\ futures = <<>>
    /\ registered = <<>>
    /\ sent = {}
    /\ conn = "none"
    /\ executor = "none"
    /\ result = NoResult
    /\ backend = data
    /\ execute_calls = [n \in 1..Cardinality(SourceNames) |-> 0]
    /\ DatesIdle
    /\ CacheIdle
    /\ SqlIdle
    /\ StreamIdle

\* Planning: any request is constructed and its combined query built.
InitPlan == \E req \in Requests : InitWith(req, DefaultBackend)

NextPlan == Construct \/ CombineQueriesCall

SpecPlan == InitPlan /\ [][NextPlan]_vars

\* Dispatch: requests without filter and ordering, grouped by at most the
\* one dimension every source has.
DispatchRequests ==
    [metrics : SeqsUpTo(MetricNames, MaxMetrics),
     dimensions : {<<>>, <<"my_dimension">>},
     granularity : {None, "DATE", "YEAR"},
     global_filter : {<<>>},
     order_by : {<<>>},
     client_sql : {<<>>},
     validate_connections : BOOLEAN]

Init == \E req \in DispatchRequests : InitWith(req, DefaultBackend)

Next ==
    \/ Construct
    \/ DispatchSubmit
    \/ \E f \in DOMAIN futures : WorkerStart(f)
    \/ \E f \in DOMAIN futures : WorkerExecute(f)
    \/ \E f \in DOMAIN futures : AsCompleted(f)
    \/ AbortExit
    \/ CombineAndExecute

Spec == Init /\ [][Next]_vars

\* Joining: two-source requests over any data of the two sources.
JoinRequests ==
    {req \in DispatchRequests :
        /\ req.validate_connections
        /\ Len(req.metrics) = 2
        /\ MetricSource[req.metrics[1]] # MetricSource[req.metrics[2]]}

InitJoin ==
    \E req \in JoinRequests, data \in [SourceNames -> SUBSET Keys] :
        /\ \A s \in SourceNames \ {MetricSource[m] : m \in Range(req.metrics)} :
              data[s] = DefaultBackend[s]
        /\ InitWith(req, data)

SpecJoin == InitJoin /\ [][Next]_vars

\* Compiling: requests with or without a client_sql, an ordering and a
\* granularity.
ClientSqls ==
    {<<>>, <<"SELECT", "stock_level">>,
     <<"SELECT", "my_metric", "my_dimension AS d">>}

CompileRequests ==
    [metrics : SeqsUpTo(MetricNames, MaxMetrics),
     dimensions : {<<>>, <<"my_dimension">>, <<"my_other_dimension">>},
     granularity : {None, "DATE"},
     global_filter : {<<>>},
     order_by : {<<>>, <<"my_dimension">>},
     client_sql : ClientSqls,
     validate_connections : BOOLEAN]

InitCompile == \E req \in CompileRequests : InitWith(req, DefaultBackend)

NextCompile == Construct \/ CombineQueriesCall \/ CompileCall

SpecCompile == InitCompile /\ [][NextCompile]_vars

\* Either call on a constructed inquiry, dispatch() or compile(): the
\* dispatch requests, and requests by a dimension that not every source has.
CallRequests ==
    DispatchRequests \cup
    [metrics : SeqsUpTo(MetricNames, MaxMetrics),
     dimensions : {<<"region">>, <<"my_other_dimension">>},
     granularity : {None},
     global_filter : {<<>>},
     order_by : {<<>>},
     client_sql : {<<>>},
     validate_connections : BOOLEAN]

InitCalls == \E req \in CallRequests : InitWith(req, DefaultBackend)

NextCalls == Next \/ CompileCall

SpecCalls == InitCalls /\ [][NextCalls]_vars

\* Nothing asked of the inquiry: an empty request, never constructed.
NoRequest ==
    [metrics |-> <<>>, dimensions |-> <<>>, granularity |-> None,
     global_filter |-> <<>>, order_by |-> <<>>, client_sql |-> <<>>,
     validate_connections |-> FALSE]

InquiryIdle ==
    /\ pc = "idle"
    /\ request = NoRequest
    /\ metrics = <<>>
    /\ atomic_queries = <<>>
    /\ error = NoError
    /\ combined = NoQuery
    /\ futures = <<>>
    /\ registered = <<>>
    /\ sent = {}
    /\ conn = "none"
    /\ executor = "none"
    /\ result = NoResult
    /\ backend = DefaultBackend
    /\ execute_calls = [n \in 1..Cardinality(SourceNames) |-> 0]

\* Date windows: any start and end date, given or not.
InitDates ==
    /\ InquiryIdle
    /\ date_pc = "given"
    /\ window \in [start_date : DateTexts \cup {NoDate},
                   end_date : DateTexts \cup {NoDate}]
    /\ source_where = <<>>
    /\ kept = {}
    /\ CacheIdle
    /\ SqlIdle
    /\ StreamIdle

NextDates == BuildSqlCall \/ QuerySource

SpecDates == InitDates /\ [][NextDates]_vars

\* Resolvers: the calls of `who` to any one resolver with any one argument,
\* while time passes and the configuration changes.
InitResolver(who, until, on) ==
    /\ InquiryIdle
    /\ DatesIdle
    /\ now = 0
    /\ config = 0
    /\ cache = <<>>
    /\ target \in Targets
    /\ callers = who
    /\ horizon = until
    /\ thr = [t \in Threads |-> Idle]
    /\ last_return = NoReturn
    /\ prev_return = NoReturn
    /\ self = on
    /\ SqlIdle
    /\ StreamIdle

NextCache ==
    \/ \E t \in Threads : Call(t)
    \/ \E t \in Threads : Load(t)
    \/ \E t \in Threads : Store(t)
    \/ Advance
    \/ ChangeConfig

\* One caller: its calls follow one another.
InitCache == InitResolver({"t1"}, MaxNow, [t \in Threads |-> "e1"])

SpecCache == InitCache /\ [][NextCache]_vars

\* Two callers: their calls overlap.
InitRace == InitResolver(Threads, RaceMaxNow, [t \in Threads |-> "e1"])

SpecRace == InitRace /\ [][NextCache]_vars

\* Two requests of the server, each on the engine _get_engine() built for
\* it.
InitEngines == InitResolver(Threads, RaceMaxNow, [t1 |-> "e1", t2 |-> "e2"])

SpecEngines == InitEngines /\ [][NextCache]_vars

\* The SQL front end: any statement, validated, parsed or sent through the
\* proxy.
InitSql ==
    /\ InquiryIdle
    /\ DatesIdle
    /\ CacheIdle
    /\ sql_pc = "new"
    /\ statement \in Statements
    /\ parsed = NoParse
    /\ routed = None
    /\ StreamIdle

NextSql == ValidateCall \/ ParseInquiryCall \/ ProxyQuery

SpecSql == InitSql /\ [][NextSql]_vars

\* Streams: any chunks, read into buffers of any size.
InitStream ==
    /\ InquiryIdle
    /\ DatesIdle
    /\ CacheIdle
    /\ SqlIdle
    /\ \E lens \in SeqsUpTo(0..MaxChunkLen, MaxChunks) :
          /\ chunks = ChunksOf(lens)
          /\ generator = ChunksOf(lens)
    /\ buffer = <<>>
    /\ delivered = <<>>
    /\ returned = NoRead

NextStream == \E size \in 0..MaxBuffer : ReadInto(size)

SpecStream == InitStream /\ [][NextStream]_vars

\* ------------------------------------------------------------ properties
\* The sources owning a requested metric, and the inquiry being constructed.
OwningSources == {MetricSource[m] : m \in Range(request.metrics)}

Constructed == pc \notin {"idle", "init", "rejected"}

MetricNamesOf(aq) == {aq.metrics[i].name : i \in DOMAIN aq.metrics}

MetricProjections(ast) ==
    {ast.select[i].alias :
        i \in {k \in DOMAIN ast.select : ast.select[k].kind = "metric"}}

\* C1: in a constructed inquiry every requested metric is in exactly one
\* atomic query, the one of its owning source; the inner SELECT of an atomic
\* query projects only metrics its source owns; and every sql sent to a
\* connection holds only metrics of the source that connection belongs to.
C1_MetricSourceLocality ==
    /\ Constructed =>
          /\ \A m \in Range(request.metrics) :
                /\ Cardinality({n \in DOMAIN atomic_queries :
                                  m \in MetricNamesOf(atomic_queries[n])}) = 1
                /\ \A n \in DOMAIN atomic_queries :
                      m \in MetricNamesOf(atomic_queries[n])
                          => atomic_queries[n].source = MetricSource[m]
          /\ \A n \in DOMAIN atomic_queries :
                /\ atomic_queries[n].ast.from = atomic_queries[n].source
                /\ MetricProjections(atomic_queries[n].ast)
                      = MetricNamesOf(atomic_queries[n])
                /\ \A m \in MetricProjections(atomic_queries[n].ast) :
                      MetricSource[m] = atomic_queries[n].source
    /\ \A e \in sent :
          \A m \in MetricProjections(e.sql) :
              e.connection = ConnectionOf(MetricSource[m])

\* C1 witness: a three-source inquiry was dispatched and each of the three
\* connections has received sql.
C1_Witness ==
    /\ pc = "done"
    /\ Len(atomic_queries) = 3
    /\ {e.connection : e \in sent} = {ConnectionOf(s) : s \in SourceNames}

\* C2: the atomic queries of a constructed inquiry are one per source owning
\* a requested metric, in strictly ascending order of source name, whatever
\* the order of the request.
C2_OnePerSourceAscending ==
    Constructed =>
        /\ {atomic_queries[n].source : n \in DOMAIN atomic_queries}
              = OwningSources
        /\ Len(atomic_queries) = Cardinality(OwningSources)
        /\ \A i, j \in DOMAIN atomic_queries :
              i < j => SourceRank[atomic_queries[i].source]
                          < SourceRank[atomic_queries[j].source]

\* C2 witness: the request names my_source, inventory, my_source in this
\* order and two atomic queries were built.
C2_Witness ==
    /\ pc = "constructed"
    /\ request.metrics = <<"my_metric", "stock_level", "my_metric">>
    /\ Len(atomic_queries) = 2

\* The dimension columns the specification allows a source.
DimensionsOf(source) ==
    Sources[source].local_dimensions \cup Sources[source].source_dimensions

Offending(cols, allowed) == SelectSeq(cols, LAMBDA c : c \notin allowed)

C4_ColumnValidity ==
    LET allowed(s) ==
            DimensionsOf(s) \cup Range(request.metrics)
                \cup {Sources[s].time_col_alias}
        sortable(s) ==
            allowed(s) \cup (IF request.granularity = None THEN {}
                             ELSE {GranularityAlias[request.granularity]})
        valid == \A s \in OwningSources :
                    /\ Range(request.global_filter) \subseteq allowed(s)
                    /\ Range(request.order_by) \subseteq sortable(s)
    IN  /\ Constructed => valid
        /\ pc # "init" /\ ~valid
              => pc = "rejected" /\ error.kind = "MimirConfigError"

\* C4 witness: an inquiry filtered on a requested metric and ordered by the
\* granularity alias is constructed.
C4_Witness ==
    /\ pc = "constructed"
    /\ request.global_filter = <<"stock_level">>
    /\ request.order_by = <<"ds">>
    /\ request.granularity = "DATE"
    /\ Cardinality(OwningSources) >= 2

\* C5: the combined query reads FROM the first atomic query and joins the
\* others, one join each, in planning order; every join is FULL ... USING the
\* granularity alias and the requested dimensions when there are such
\* columns and CROSS when there are none; it has an ORDER BY exactly when
\* order_by was given.
C5_CombinePlan ==
    LET cols == (IF request.granularity = None THEN <<>>
                 ELSE <<GranularityAlias[request.granularity]>>)
                    \o request.dimensions
    IN  pc = "combined" =>
            /\ combined.from = atomic_queries[1].name
            /\ Len(combined.joins) = Len(atomic_queries) - 1
            /\ \A i \in DOMAIN combined.joins :
                  /\ combined.joins[i].table = atomic_queries[i + 1].name
                  /\ IF cols # <<>>
                     THEN /\ combined.joins[i].join_type = "full"
                          /\ combined.joins[i].using = cols
                     ELSE /\ combined.joins[i].join_type = "cross"
                          /\ combined.joins[i].using = <<>>
            /\ combined.order_by = request.order_by

\* C5 witness: three atomic queries combined on a granularity and a
\* dimension, with an ordering.
C5_Witness ==
    /\ pc = "combined"
    /\ Len(atomic_queries) = 3
    /\ request.granularity = "DATE"
    /\ request.dimensions = <<"my_dimension">>
    /\ request.order_by # <<>>

Dispatched == pc \in {"waiting", "aborting", "raised", "done"}

\* C7: dispatch() holds one future per atomic query and execute of an atomic
\* query runs at most once, exactly once when dispatch() returns; the tables
\* registered are the results of the futures taken from as_completed, each
\* under the name of its own atomic query; and the combined query is built
\* and executed only when every atomic query's name is registered.
C7_SubmitRegisterCombine ==
    /\ Dispatched =>
          \A n \in DOMAIN atomic_queries :
              /\ Cardinality({f \in DOMAIN futures :
                                futures[f].query = n}) = 1
              /\ execute_calls[n] <= 1
              /\ pc = "done" => execute_calls[n] = 1
    /\ \A f \in DOMAIN futures :
          futures[f].consumed /\ futures[f].outcome = "ok" =>
              \E i \in DOMAIN registered :
                  /\ registered[i].name =
                        atomic_queries[futures[f].query].name
                  /\ registered[i].table = futures[f].value
    /\ \A i \in DOMAIN registered :
          \E f \in DOMAIN futures :
              /\ futures[f].consumed /\ futures[f].outcome = "ok"
              /\ registered[i].name = atomic_queries[futures[f].query].name
              /\ registered[i].table = futures[f].value
    /\ combined # NoQuery =>
          {atomic_queries[n].name : n \in DOMAIN atomic_queries}
              = RegisteredNames(registered)

\* C7 witness: a three-source dispatch returned.
C7_Witness ==
    /\ pc = "done"
    /\ Len(atomic_queries) = 3
    /\ Len(registered) = 3

\* C8 as stated: once a failure was taken from as_completed, no work item
\* that is still pending is started (it is cancelled), nothing more is
\* registered, the combined query is never built, and the failure raised is
\* that of the future taken.
C8_FailureCancelsOutstanding ==
    [][/\ pc = "aborting" =>
             /\ \A f \in DOMAIN futures :
                   futures[f].state = "pending"
                       => futures'[f].state # "running"
             /\ registered' = registered
             /\ combined' = NoQuery
             /\ error' = error
       /\ pc = "waiting" /\ pc' = "aborting" =>
             \E f \in DOMAIN futures :
                 /\ ~futures[f].consumed /\ futures'[f].consumed
                 /\ error'.cause = futures[f].outcome
                 /\ error'.cause # "ok"]_vars

\* C9 as stated: the exception dispatch() raises for a failed worker is of
\* the worker's kind: MimirQueryError for a source without a connection,
\* MimirConnectionError for a failure of the backend.
C9_SameKindSurfaces ==
    pc \in {"aborting", "raised"} /\ error.cause # None =>
        error.kind = (IF error.cause = "MimirQueryError"
                      THEN "MimirQueryError" ELSE "MimirConnectionError")

\* The registrations in planning order.
PlannedTables ==
    [n \in DOMAIN atomic_queries |->
        [name |-> atomic_queries[n].name,
         table |-> BackendTable(atomic_queries[n],
                                backend[atomic_queries[n].source]),
         by |-> "main"]]

\* C10: every registration is made by the thread that called dispatch(), and
\* whatever the order in which the workers completed, the combined query and
\* what its execution gives are those of the registrations made in planning
\* order.
C10_CompletionOrderIndependent ==
    /\ \A i \in DOMAIN registered : registered[i].by = "main"
    /\ combined # NoQuery =>
          LET r == ExecuteCombined(CombineQueries(request, metrics,
                                                  atomic_queries),
                                   PlannedTables)
          IN  /\ combined = CombineQueries(request, metrics, atomic_queries)
              /\ IF r.status = "ok"
                 THEN pc = "done" /\ result = r
                 ELSE pc = "raised" /\ error.kind = r.status

\* C10 witness: a three-source dispatch returned whose first registration
\* was the result of the third atomic query.
C10_Witness ==
    /\ pc = "done"
    /\ Len(atomic_queries) = 3
    /\ registered[1].name = atomic_queries[3].name

\* C11: the compiled source has one condition per bound given and none for an
\* absent one, each literal of the form YYYY-MM-DD; start 2025-01-01 and end
\* 2025-01-31 give time_col >= '2025-01-01' and time_col < '2025-02-01'; and
\* the rows it returns are exactly those whose day is not before the start
\* date and not after the end date, so every row of the end day is kept and
\* no row of a later day is.
C11_DateWindow ==
    LET given(text) == text # NoDate
        a == Strptime(window.start_date)
        b == Strptime(window.end_date)
        day(dt) == [date |-> dt, tod |-> 0]
        iso(text) ==
            /\ Len(text) = 10
            /\ text[5] = "-" /\ text[8] = "-"
            /\ \A i \in (1..10) \ {5, 8} : \E n \in 1..10 : Digits[n] = text[i]
    IN  /\ date_pc \in {"compiled", "queried"} =>
              /\ Len(source_where) =
                    (IF given(window.start_date) THEN 1 ELSE 0)
                        + (IF given(window.end_date) THEN 1 ELSE 0)
              /\ \A i \in DOMAIN source_where : iso(source_where[i].literal)
              /\ window = [start_date |-> <<"2", "0", "2", "5", "-", "0", "1",
                                           "-", "0", "1">>,
                           end_date |-> <<"2", "0", "2", "5", "-", "0", "1",
                                         "-", "3", "1">>]
                    => source_where =
                         <<Condition("created", ">=",
                                     <<"2", "0", "2", "5", "-", "0", "1", "-",
                                       "0", "1">>),
                           Condition("created", "<",
                                     <<"2", "0", "2", "5", "-", "0", "2", "-",
                                       "0", "1">>)>>
        /\ date_pc = "queried" =>
              kept = {row \in Rows :
                         /\ given(window.start_date)
                               => ~StampLess(day(row.date), day(a))
                         /\ given(window.end_date)
                               => ~StampLess(day(b), day(row.date))}

\* C11 witness: the window ends on the last day of February of a leap year
\* and the last instant of that day was returned.
C11_Witness ==
    /\ date_pc = "queried"
    /\ window.start_date # NoDate
    /\ window.end_date # NoDate
    /\ Strptime(window.end_date) = Date(2024, 2, 29)
    /\ [date |-> Date(2024, 2, 29), tod |-> 1] \in kept
    /\ [date |-> Date(2024, 3, 1), tod |-> 0] \notin kept

\* C12: in every atomic query of a constructed inquiry the GROUP BY list is
\* the positions 1..k, k being one for a granularity plus the number of
\* requested dimensions; the first k projections are the non-metric ones and
\* every later projection is a metric's, so there are as many GROUP BY
\* positions as non-metric projections, and no GROUP BY when k = 0.
C12_PositionalGrouping ==
    Constructed =>
        \A n \in DOMAIN atomic_queries :
            LET ast == atomic_queries[n].ast
                k == (IF request.granularity = None THEN 0 ELSE 1)
                        + Len(request.dimensions)
            IN  /\ ast.group_by = [i \in 1..k |-> i]
                /\ k <= Len(ast.select)
                /\ \A i \in DOMAIN ast.select :
                      (i <= k) <=> (ast.select[i].kind # "metric")
                /\ Len(ast.group_by) =
                      Cardinality({i \in DOMAIN ast.select :
                                      ast.select[i].kind # "metric"})
                /\ k = 0 => ast.group_by = <<>>

\* C12 witness: an inquiry by month and two dimensions was constructed.
C12_Witness ==
    /\ Constructed
    /\ request.granularity = "MONTH"
    /\ Len(request.dimensions) = 2
    /\ Len(atomic_queries) >= 1
    /\ atomic_queries[1].ast.group_by = <<1, 2, 3>>

\* C13 as stated: for every granularity, each atomic query projects the
\* time-bucket expression under the granularity's alias, which is the first
\* column of the combined projection and of every USING list.
C13_GranularityAlias ==
    Constructed /\ request.granularity # None =>
        LET alias == GranularityAlias[request.granularity]
        IN  /\ \A n \in DOMAIN atomic_queries :
                  /\ atomic_queries[n].ast.select[1].kind = "granularity"
                  /\ atomic_queries[n].ast.select[1].alias = alias
            /\ pc = "combined" =>
                  /\ combined.select[1] = alias
                  /\ \A i \in DOMAIN combined.joins :
                        combined.joins[i].using[1] = alias

BothReturned == prev_return.by # None /\ last_return.by # None

\* C14 as stated: of two calls made less than TTL seconds apart, the second
\* returns what the first returned and does not consult the loader; and a call
\* made TTL seconds or more after the one before it loads afresh.
C14_WithinTtl ==
    BothReturned =>
        /\ last_return.called_at - prev_return.called_at < TTL
              => /\ last_return.value = prev_return.value
                 /\ ~last_return.loaded
        /\ last_return.called_at - prev_return.called_at >= TTL
              => /\ last_return.loaded
                 /\ last_return.value.status = "ok"
                       => last_return.value.loaded_at >= last_return.called_at

\* The time bucket a call was made in.
BucketOf(ret) == ret.called_at \div TTL

\* C14 amended: of two calls one after the other in the same time bucket
\* floor(now / TTL), the first of which returned a result, the second returns
\* that result and does not consult the loader; and a call made in a later
\* bucket than the call before it loads afresh, after it was made.
C14_SameBucket ==
    BothReturned =>
        /\ BucketOf(last_return) = BucketOf(prev_return)
              /\ prev_return.value.status = "ok"
              => /\ last_return.value = prev_return.value
                 /\ ~last_return.loaded
        /\ BucketOf(last_return) > BucketOf(prev_return)
              => /\ last_return.loaded
                 /\ last_return.value.status = "ok"
                       => /\ last_return.value.loaded_at
                                >= last_return.called_at
                          /\ last_return.value.source_loaded_at
                                >= TTL * BucketOf(last_return)

\* C14 witness: get_source was called twice in one bucket, the configuration
\* having changed in between, and returned the first result again; and
\* called in a later bucket it returned the changed configuration.
C14_Witness ==
    /\ target = <<"get_source", "my_source">>
    /\ BothReturned
    /\ \/ /\ BucketOf(last_return) = BucketOf(prev_return)
          /\ config > prev_return.value.version
          /\ last_return.value = prev_return.value
       \/ /\ BucketOf(last_return) > BucketOf(prev_return)
          /\ last_return.value.version > prev_return.value.version

Content(v) == [v EXCEPT !.loaded_at = 0, !.source_loaded_at = 0]

TargetKey(bucket) == KeyOf("e1", target, bucket)

\* What C16 says of every step but the equivalence: a thread that stores
\* leaves its result as the entry of its key, whatever was there; a call finds
\* the loader only when no entry is stored for its key; and a call that does
\* not load returns the entry stored for its key.
StoreAndLookup ==
    \A t \in Threads :
        /\ thr[t].pc = "loaded" /\ thr'[t].pc = "idle"
              => /\ TargetKey(thr[t].bucket) \in DOMAIN cache'
                 /\ cache'[TargetKey(thr[t].bucket)] = thr[t].value
        /\ thr[t].pc = "idle" /\ thr'[t].pc = "missed"
              => TargetKey(now \div TTL) \notin DOMAIN cache
        /\ thr[t].pc = "idle" /\ last_return' # last_return
              /\ last_return'.by = t
              => /\ ~last_return'.loaded
                 /\ TargetKey(now \div TTL) \in DOMAIN cache
                 /\ last_return'.value = cache[TargetKey(now \div TTL)]

\* The results two threads computed for one key are equivalent: when one
\* stores, the other's, if it holds one for that key, has the same content.
ComputedEquivalent ==
    \A t \in Threads : \A u \in Threads \ {t} :
        /\ thr[t].pc = "loaded" /\ thr'[t].pc = "idle"
        /\ thr[u].pc = "loaded" /\ thr[u].bucket = thr[t].bucket
        => Content(thr[u].value) = Content(thr[t].value)

\* C16 as stated: two threads that both computed the result of one key hold
\* equivalent results, the last to store leaves the single entry of the key,
\* and later calls in the bucket return it without the loader.
C16_RaceEquivalent == [][StoreAndLookup /\ ComputedEquivalent]_vars

\* C16 amended: two threads that missed the same key both invoke the loader,
\* and their results differ when the configuration changed between the two
\* loads; the last to store leaves the single entry of the key, and a call
\* made in that bucket once an entry is stored returns the stored entry
\* without invoking the loader.
C16_LastWriteWins == [][StoreAndLookup]_vars

\* C16 witness: both threads loaded get_source for the same bucket, the one
\* that stored last loaded first, and its older result is the entry.
C16_Witness ==
    /\ target = <<"get_source", "my_source">>
    /\ BothReturned
    /\ prev_return.loaded /\ last_return.loaded
    /\ prev_return.by # last_return.by
    /\ prev_return.bucket = last_return.bucket
    /\ prev_return.value.version > last_return.value.version
    /\ cache[TargetKey(last_return.bucket)] = last_return.value

\* C17 as stated: for a name without configuration, get_source and
\* get_metric raise MimirConfigError naming it, and get_dimension returns a
\* Dimension of that name with source_name "local" and no sql.
C17_MissingConfiguration ==
    last_return.by # None /\ target[2] = Unconfigured =>
        LET v == last_return.value
        IN  /\ target[1] \in {"get_source", "get_metric"}
                  => v.status = "MimirConfigError" /\ v.entity = target[2]
            /\ target[1] = "get_dimension"
                  => /\ v.status = "ok"
                     /\ v.entity = target[2]
                     /\ v.source_name = "local"
                     /\ v.sql = None

\* A statement MimirSql.validate() refuses.
Unsupported(stmt) ==
    stmt.form \in {"multiple", "cte", "derived_table", "subquery"}

\* C18 as stated: validate() raises the not-implemented error for a
\* statement that has more than one statement, a CTE, a derived table or a
\* subquery, and the proxy sends no such statement to the Mimir client or
\* to the local analytical engine.
C18_RejectedBeforeRouting ==
    sql_pc # "idle" /\ Unsupported(statement) =>
        /\ SqlValidate(statement) = "MimirNotImplementedError"
        /\ routed = None

\* SELECT d1..dk, AGG(m1)..AGG(mj) FROM mimir.metrics [WHERE w] [ORDER BY o]
RoundTripForm(stmt) ==
    /\ stmt.form = "single"
    /\ stmt.table = "mimir.metrics"
    /\ \A p \in Range(stmt.projections) : p.kind \in {"column", "agg"}

\* The projection as written with AGG(x) read as x, alias kept.
InputProjection(p) ==
    IF p.alias = None THEN <<p.name>> ELSE <<p.name, "AS", p.alias>>

\* The whole of ORDER BY as written.
WholeOrderBy(order) ==
    JoinComma([i \in DOMAIN order |-> OrderedSql(order[i])])

\* C19 as stated: for a single SELECT of columns and AGG(m) over
\* mimir.metrics with optional WHERE and optional ORDER BY of one or more
\* sort keys, parse_inquiry returns as client_sql the projection list in
\* the same order with the same aliases and every AGG(x) replaced by x, as
\* global_filter the WHERE condition, and as order_by the whole ORDER BY.
C19_RoundTrip ==
    /\ sql_pc \in {"parsed", "raised", "answered", "failed"}
    /\ RoundTripForm(statement)
    =>
        /\ parsed.status = "ok"
        /\ parsed.client_sql =
               <<"SELECT">> \o
               JoinComma([i \in DOMAIN statement.projections |->
                              InputProjection(statement.projections[i])])
        /\ parsed.global_filter =
               IF statement.where.present
               THEN <<statement.where.left, statement.where.op,
                      statement.where.right>>
               ELSE NoText
        /\ parsed.order_by = WholeOrderBy(statement.order)

\* A projection that contains a call of AGG anywhere in it, and the
\* identifiers its AGG calls wrap.
ContainsAgg(p) == p.kind \in {"agg", "wrapped", "ratio"}

WrappedByAgg(p) == IF p.kind = "ratio" THEN {p.name, p.other} ELSE {p.name}

\* parse_inquiry was called on the statement (by the proxy only for
\* mimir.metrics).
ParseInquiryCalled ==
    \/ sql_pc \in {"parsed", "raised", "failed"}
    \/ sql_pc = "answered" /\ routed = "mimir_client"

\* C20 as stated: parse_inquiry classifies every top-level projection as
\* exactly one of metric or dimension: one that contains a call of AGG (in
\* any case) anywhere contributes the identifier AGG wraps to metrics and
\* nothing to dimensions, one that contains none contributes its column
\* identifier to dimensions and nothing to metrics.
C20_Classification ==
    ParseInquiryCalled =>
        LET cols == Range(statement.projections)
        IN  /\ parsed.status = "ok"
            /\ parsed.metrics =
                   UNION {WrappedByAgg(p) : p \in {q \in cols :
                                                       ContainsAgg(q)}}
            /\ parsed.dimensions =
                   {p.name : p \in {q \in cols : ~ContainsAgg(q)}}

\* C21 as stated: of every query the proxy session received exactly one
\* back end is used: a query whose table is mimir.metrics is translated and
\* sent to the Mimir client, any other is run by the local DuckDB
\* connection.
C21_ExactlyOneBackend ==
    sql_pc \in {"answered", "failed"} =>
        IF statement.table = "mimir.metrics"
        THEN routed = "mimir_client" /\ parsed = ParseInquiry(statement)
        ELSE routed = "duckdb" /\ parsed = NoParse

\* C22: compile() sends each atomic query to its source's connection only
\* in its LIMIT 0 form, registers results without rows under the queries'
\* names, returns the combined query without executing it, and raises
\* MimirQueryError, nothing sent, when a source has no connection.
C22_CompileSchemaOnly ==
    pc \in {"compiled", "compile_raised"} =>
        /\ \A s \in sent :
              /\ s.sql.limit = <<0>>
              /\ \E i \in DOMAIN atomic_queries :
                    /\ s.connection = ConnectionOf(atomic_queries[i].source)
                    /\ [s.sql EXCEPT !.limit = <<>>] = atomic_queries[i].ast
        /\ \A i \in DOMAIN registered :
              /\ registered[i].name = atomic_queries[i].name
              /\ registered[i].table.rows = {}
              /\ registered[i].table.columns =
                     {atomic_queries[i].ast.select[j].alias :
                         j \in DOMAIN atomic_queries[i].ast.select}
        /\ result = NoResult
        /\ executor = "none"
        /\ pc = "compiled" =>
              /\ combined = CombineQueries(request, metrics, atomic_queries)
              /\ Len(registered) = Len(atomic_queries)
              /\ Cardinality(sent) = Len(atomic_queries)
        /\ ~request.validate_connections /\ atomic_queries # <<>> =>
              /\ pc = "compile_raised"
              /\ error.kind = "MimirQueryError"
              /\ sent = {}

\* C22 witness: an inquiry of two sources was compiled.
C22_Witness ==
    /\ pc = "compiled"
    /\ Len(atomic_queries) = 2
    /\ Cardinality(sent) = 2
    /\ Len(registered) = 2

\* C23: the combined query projects the granularity alias (if any), the
\* requested dimensions in the request's order, then the metrics in the
\* inquiry's order; with a client_sql it projects the expressions of the
\* client_sql instead, and its FROM, joins and ORDER BY are those of the
\* same request without client_sql.
C23_ProjectionList ==
    pc \in {"combined", "compiled"} =>
        LET alias == IF request.granularity = None THEN <<>>
                     ELSE <<GranularityAlias[request.granularity]>>
            names == [i \in DOMAIN metrics |-> metrics[i].name]
            plain == CombineQueries([request EXCEPT !.client_sql = <<>>],
                                    metrics, atomic_queries)
        IN  /\ request.client_sql = <<>> =>
                  combined.select = alias \o request.dimensions \o names
            /\ request.client_sql # <<>> =>
                  combined.select =
                      SubSeq(request.client_sql, 2, Len(request.client_sql))
            /\ plain.select = alias \o request.dimensions \o names
            /\ combined.from = plain.from
            /\ combined.joins = plain.joins
            /\ combined.order_by = plain.order_by

\* C23 witness: a combined query of two sources with a granularity, a
\* dimension, an ordering and a client_sql of two expressions.
C23_Witness ==
    /\ pc = "combined"
    /\ Len(request.client_sql) = 3
    /\ request.granularity # None
    /\ request.dimensions # <<>>
    /\ request.order_by # <<>>
    /\ combined.joins # <<>>

\* C24 as stated: a request that names no metric is rejected, so an inquiry
\* without metrics, and hence without atomic queries, is never planned,
\* combined or dispatched.
C24_MetricsRequired ==
    request.metrics = <<>> => pc \in {"idle", "init", "rejected"}

\* C25: the in-memory connection and the thread pool of dispatch(), and the
\* connection of compile(), are acquired by the call and released when it
\* returns or raises: on a normal return, after a worker's error, after a
\* failure of the combined query; no work item of the pool is left running.
C25_ReleasedOnExit ==
    /\ pc \in {"init", "constructed", "rejected"} =>
          conn = "none" /\ executor = "none"
    /\ pc \in {"waiting", "aborting"} => conn = "open" /\ executor = "open"
    /\ pc \in {"done", "raised"} =>
          conn = "closed" /\ executor = "shutdown" /\ AllFinished
    /\ pc \in {"compiled", "compile_raised"} =>
          conn = "closed" /\ executor = "none"

\* C25 witness: dispatch() raised after the error of one of two workers.
C25_Witness ==
    /\ pc = "raised"
    /\ error.kind = "Exception"
    /\ Len(futures) = 2
    /\ conn = "closed"
    /\ executor = "shutdown"

\* C26: the required_dimensions of every atomic query are the dimensions
\* named as required by one of its metrics and not among the requested
\* dimensions, each as the catalog resolves it and once, and the compiled
\* source holds the expressions of the requested and of these required
\* dimensions that have a sql of their own.
C26_RequiredDimensions ==
    Constructed =>
        \A n \in DOMAIN atomic_queries :
            LET aq == atomic_queries[n]
                needed ==
                    {d \in DOMAIN DimensionConfigs \cup DimNames :
                        /\ \E i \in DOMAIN aq.metrics :
                              d \in Range(MetricRequiredDimensions[
                                              aq.metrics[i].name])
                        /\ d \notin Range(request.dimensions)}
                given == Range(request.dimensions) \cup needed
            IN  /\ {d.name : d \in aq.required_dimensions} = needed
                /\ Cardinality(aq.required_dimensions) = Cardinality(needed)
                /\ \A d \in aq.required_dimensions : d = GetDimension(d.name)
                /\ aq.ast.as_ =
                       UNION {Range(Tail(DimensionConfigs[d].sql)) :
                                 d \in {x \in given \cap DOMAIN DimensionConfigs :
                                           DimensionConfigs[x].sql # <<>>}}

\* C26 witness: my_metric asked twice by my_dimension, which it requires
\* together with my_other_dimension: only the latter is required of the
\* atomic query, and its expression is in the compiled source.
C26_Witness ==
    /\ Constructed
    /\ request.metrics = <<"my_metric", "my_metric">>
    /\ request.dimensions = <<"my_dimension">>
    /\ atomic_queries[1].required_dimensions =
           {GetDimension("my_other_dimension")}
    /\ atomic_queries[1].ast.as_ = {"o.label AS my_other_dimension"}

\* C27 as stated: whatever the chunks and the sizes of the buffers, the
\* bytes delivered are the chunks' bytes in order, none lost and none twice,
\* and readinto returns 0 only when the generator is exhausted and every
\* byte has been delivered.
C27_StreamDelivery ==
    /\ delivered \o buffer \o Flatten(generator) = Flatten(chunks)
    /\ returned.n = 0 /\ returned.size > 0 =>
          /\ generator = <<>>
          /\ buffer = <<>>
          /\ delivered = Flatten(chunks)

\* A request with a dimension that an owning source does not have.
InvalidRequest ==
    \E s \in OwningSources :
        Offending(request.dimensions,
                  DimensionsOf(s) \cup {Sources[s].time_col_alias}) # <<>>

\* C28: an inquiry that fails validation is rejected with no atomic query
\* built, and nothing of it reaches a backend: no future, no execute, no
\* sql sent, nothing registered; atomic queries and sent sql exist only for
\* requests that every owning source validates.
C28_ValidationFirst ==
    /\ pc # "init" /\ InvalidRequest =>
          /\ pc = "rejected"
          /\ error.kind = "MimirConfigError"
          /\ atomic_queries = <<>>
          /\ futures = <<>>
          /\ sent = {}
          /\ registered = <<>>
          /\ \A n \in DOMAIN execute_calls : execute_calls[n] = 0
          /\ conn = "none" /\ executor = "none"
    /\ atomic_queries # <<>> \/ sent # {} => ~InvalidRequest

\* C28 witness: my_metric and stock_level by my_other_dimension, which
\* inventory does not have, was rejected.
C28_Witness ==
    /\ pc = "rejected"
    /\ request.dimensions = <<"my_other_dimension">>
    /\ OwningSources = {"my_source", "inventory"}
    /\ error = MimirConfigError("inventory", <<"my_other_dimension">>)
    /\ atomic_queries = <<>>
    /\ sent = {}

\* C29: no cache entry holds an exception; the call that follows a raising
\* call in the same time bucket consults the loader again, and when it
\* succeeds its result was built from a configuration in which the name is
\* configured, loaded no earlier than the failure.
C29_ExceptionsNotCached ==
    /\ \A key \in DOMAIN cache : cache[key].status = "ok"
    /\ /\ BothReturned
       /\ prev_return.value.status # "ok"
       /\ BucketOf(prev_return) = BucketOf(last_return)
       => /\ last_return.loaded
          /\ last_return.value.status = "ok" =>
                /\ last_return.value.loaded_at >= prev_return.returned_at
                /\ LoaderGet(Resolvers[target[1]], target[2],
                             last_return.value.version) = "conf"

\* C29 witness: get_source of a name without configuration raised, the
\* configuration was written, and the next call in the same bucket returned
\* the source.
C29_Witness ==
    /\ target = <<"get_source", Added>>
    /\ BothReturned
    /\ prev_return.value.status = "MimirConfigError"
    /\ BucketOf(prev_return) = BucketOf(last_return)
    /\ last_return.loaded
    /\ last_return.value.status = "ok"
    /\ last_return.value.version >= 1

\* C30: what a call on an engine returns was resolved through that engine:
\* a configured definition it returns was read by the engine's own loader,
\* and so was the source of a metric it returns; every entry of the cache was
\* read by the loader of the engine of its key.
C30_KeyedByEngine ==
    /\ \A key \in DOMAIN cache :
          cache[key].source_name # "local" =>
              /\ cache[key].version \in LoaderVersions(key[1])
              /\ cache[key].source_version \in LoaderVersions(key[1])
    /\ \A ret \in {last_return, prev_return} :
          /\ ret.by # None
          /\ ret.value.status = "ok"
          /\ ret.value.source_name # "local"
          => /\ ret.value.version \in LoaderVersions(self[ret.by])
             /\ ret.value.source_version \in LoaderVersions(self[ret.by])

\* C30 witness: one engine resolved the name and stored it; the call on the
\* other engine, for the same name in the same bucket, ran its own loader and
\* returned its own result, and the cache holds one entry for each engine.
C30_Witness ==
    /\ target = <<"get_metric", "my_metric">>
    /\ BothReturned
    /\ prev_return.by # last_return.by
    /\ prev_return.bucket = last_return.bucket
    /\ prev_return.returned_at <= last_return.called_at
    /\ prev_return.value.status = "ok" /\ last_return.value.status = "ok"
    /\ last_return.loaded
    /\ prev_return.value.version # last_return.value.version
    /\ \A e \in Engines : KeyOf(e, target, last_return.bucket) \in DOMAIN cache

====
